---- MODULE Spec2Model ----
(***************************************************************************)
(* Model of the entry-matching, reconciliation (compare_files) and merge   *)
(* (add_entry_yaml_to_yaml_referece, add_entry_dic_to_yaml_referece) code  *)
(* of check_bib_V2.py.                                                     *)
(*                                                                         *)
(* A Python dict is modelled as a sequence of <<key, value>> pairs with    *)
(* pairwise distinct keys: the sequence order is the dict's insertion      *)
(* (= iteration) order.  A bibliography entry is a function whose DOMAIN   *)
(* is the set of fields the entry has.  A string that the code indexes or  *)
(* rewrites (titles, first and middle names) is a sequence of one-         *)
(* character strings; other strings are TLA+ strings.                      *)
(***************************************************************************)
EXTENDS Integers, Sequences, FiniteSets, TLC

(***************************************************************************)
(* Bounds of the model.                                                    *)
(***************************************************************************)
\* largest number of entries of the first file (file1 / yaml_file)
MaxLeft == 2
\* largest number of entries of the second file (file2 / entry_data_A)
MaxRight == 2

\* names of entry keys; the first file uses the first Len names in order
KeyPool == <<"k1", "k2", "k3", "k4", "k5">>
\* keys the second file of a merge draws from: enough for a key of the first
\* file to be reused and for a fresh one
Keys == {KeyPool[n] : n \in 1..(MaxLeft + 1)}

(***************************************************************************)
(* Python dict helpers.                                                    *)
(***************************************************************************)
EmptyDict == << >>

DictKeys(d) == {d[n][1] : n \in 1..Len(d)}

DictKeyList(d) == [n \in 1..Len(d) |-> d[n][1]]

\* d[k], for a key of d
DictGet(d, k) == d[CHOOSE n \in 1..Len(d) : d[n][1] = k][2]

\* d[k] = v : an existing key keeps its position, a new key goes last
DictSet(d, k, v) ==
    IF k \in DictKeys(d)
    THEN [n \in 1..Len(d) |-> IF d[n][1] = k THEN <<k, v>> ELSE d[n]]
    ELSE Append(d, <<k, v>>)

\* the entry without any field
NoFields == [f \in {} |-> << >>]

(***************************************************************************)
(* normalize (re.sub(r'\W+', '', s).lower()) over the model's alphabet.    *)
(* \w is a letter, a digit or the underscore.  "Idot" stands for U+0130,   *)
(* the capital I with a dot above, a letter whose lower case is two code   *)
(* points: "i" and "dot", the combining dot above U+0307, which is no      *)
(* letter.                                                                 *)
(***************************************************************************)
Letters == {"a", "b", "c", "i", "A", "B", "C", "Idot"}
Digits == {"1", "2"}
Other == {" ", "-", "!", ".", "dot"}
Chars == Letters \cup Digits \cup {"_"} \cup Other

IsWordChar(c) == c \in Letters \cup Digits \cup {"_"}

\* str.lower() of one character
lower(c) ==
    CASE c = "A" -> <<"a">>
      [] c = "B" -> <<"b">>
      [] c = "C" -> <<"c">>
      [] c = "Idot" -> <<"i", "dot">>
      [] OTHER -> <<c>>

\* str.lower() of a string
RECURSIVE LowerAll(_)
LowerAll(s) == IF s = << >> THEN << >> ELSE lower(Head(s)) \o LowerAll(Tail(s))

\* re.sub(r'\W+', '', s): every run of non-word characters removed
StripNonWord(s) == SelectSeq(s, IsWordChar)

normalize(s) == LowerAll(StripNonWord(s))

(***************************************************************************)
(* Author Equivalence Model and the matchers.                              *)
(***************************************************************************)
\* list_equivalence[k] = v on a dict compared with ==, so order-free
MapSet(m, k, v) == [x \in (DOMAIN m) \cup {k} |-> IF x = k THEN v ELSE m[x]]

EmptyMap == [x \in {} |-> << >>]

\* the whole name and the whole name with a dot, instead of the initial
Initials_whole_name(name) == <<name, name \o <<".">> >>

\* [name[0]] + [name[0] + '.']
Initials(name) == << <<name[1]>>, <<name[1], ".">> >>

\* the body of the loop with the first name registered after the middle
\* name, so that the first name is the one that stays
AuthorStep_first_stays(list_equivalence, author) ==
    LET last_name == author.last
        afterMiddle == IF "middle" \in DOMAIN author
                       THEN MapSet(list_equivalence, last_name, Initials(author.middle))
                       ELSE list_equivalence
    IN  IF "first" \in DOMAIN author
        THEN MapSet(afterMiddle, last_name, Initials(author.first))
        ELSE afterMiddle

\* the body of the loop of author_name_equivalence for one author
AuthorStep(list_equivalence, author) ==
    LET last_name == author.last
        afterFirst == IF "first" \in DOMAIN author
                      THEN MapSet(list_equivalence, last_name, Initials(author.first))
                      ELSE list_equivalence
    IN  IF "middle" \in DOMAIN author
        THEN MapSet(afterFirst, last_name, Initials(author.middle))
        ELSE afterFirst

RECURSIVE AuthorFold(_, _, _)
AuthorFold(list_equivalence, authors, n) ==
    IF n > Len(authors)
    THEN list_equivalence
    ELSE AuthorFold(AuthorStep(list_equivalence, authors[n]), authors, n + 1)

author_name_equivalence(entry) == AuthorFold(EmptyMap, entry.author, 1)

\* entries_match asking only that every last name registered for entry1 is
\* registered for entry2 with the same initials
entries_match_subset(entry1, entry2, entry) ==
    IF entry = "author"
    THEN LET fp1 == author_name_equivalence(entry1)
             fp2 == author_name_equivalence(entry2)
         IN  /\ DOMAIN fp1 \subseteq DOMAIN fp2
             /\ \A l \in DOMAIN fp1 : fp1[l] = fp2[l]
    ELSE normalize(entry1[entry]) = normalize(entry2[entry])

entries_match(entry1, entry2, entry) ==
    IF entry = "author"
    THEN author_name_equivalence(entry1) = author_name_equivalence(entry2)
    ELSE normalize(entry1[entry]) = normalize(entry2[entry])

\* do_they_have with the two verdicts of the inner test exchanged
do_they_have_exchanged(ref1, ref2, Check_if_have) ==
    IF Check_if_have \in DOMAIN ref1 /\ Check_if_have \in DOMAIN ref2
    THEN IF entries_match(ref1, ref2, Check_if_have) THEN 1 ELSE 3
    ELSE 0

do_they_have(ref1, ref2, Check_if_have) ==
    IF Check_if_have \in DOMAIN ref1 /\ Check_if_have \in DOMAIN ref2
    THEN IF entries_match(ref1, ref2, Check_if_have) THEN 3 ELSE 1
    ELSE 0

\* field_values_match_multiple with the verdicts for a field missing on one
\* side exchanged
field_values_match_multiple_sides_exchanged(entry1, entry2, field_name) ==
    IF field_name \notin DOMAIN entry1 /\ field_name \notin DOMAIN entry2 THEN 0
    ELSE IF field_name \notin DOMAIN entry1 THEN 2
    ELSE IF field_name \notin DOMAIN entry2 THEN 1
    ELSE IF entry1[field_name] = entry2[field_name] THEN 3
    ELSE 4

field_values_match_multiple(entry1, entry2, field_name) ==
    IF field_name \notin DOMAIN entry1 /\ field_name \notin DOMAIN entry2 THEN 0
    ELSE IF field_name \notin DOMAIN entry1 THEN 1
    ELSE IF field_name \notin DOMAIN entry2 THEN 2
    ELSE IF entry1[field_name] = entry2[field_name] THEN 3
    ELSE 4

\* the fields compare_files reports on, in the order of the report's columns
ReportFields == <<"type", "journal", "volume", "number", "pages", "year">>

YesNo(score) == IF score = 3 THEN "Yes" ELSE "No"

FieldMark(result) ==
    CASE result = 3 -> "Yes"
      [] result = 2 -> "M-2"
      [] result = 1 -> "M-1"
      [] result = 0 -> "M-Both"
      [] OTHER -> "No"

\* the row compare_files appends for a candidate pair
MatchRow(key1, entry1, key2, entry2) ==
    <<key1, key2,
      YesNo(do_they_have(entry1, entry2, "title")),
      YesNo(do_they_have(entry1, entry2, "author"))>>
    \o [n \in 1..Len(ReportFields) |->
          FieldMark(field_values_match_multiple(entry1, entry2, ReportFields[n]))]

(***************************************************************************)
(* The entries the model's files are made of.  Between them every pair of  *)
(* title score and author score in {0,1,3} x {0,1,3} occurs, with titles   *)
(* and author lists that agree without being written the same way.         *)
(***************************************************************************)
TitleAb == <<"A", " ", "b">>
TitleAbAlt == <<"a", "b", "!">>
TitleC1 == <<"c", "_", "1">>
TitleC1Alt == <<"C", "-", "_", "1">>

John == <<"J", "o", "h", "n">>
JDot == <<"J", ".">>
Ann == <<"A", "n", "n">>
Bea == <<"B", "e", "a">>
BDot == <<"B", ".">>

AuthSmith == << [last |-> "Smith", first |-> John] >>
AuthSmithAlt == << [last |-> "Smith", first |-> JDot], [last |-> "Doe"] >>
AuthJones == << [last |-> "Jones", first |-> Ann, middle |-> Bea] >>
AuthJonesAlt == << [last |-> "Jones", middle |-> BDot] >>

\* title and author, as first written
EntrySmithAb ==
    [title |-> TitleAb, author |-> AuthSmith, type |-> "article",
     journal |-> "Nature", year |-> "2016"]
\* the same work as EntrySmithAb from another source
EntrySmithAbAlt ==
    [title |-> TitleAbAlt, author |-> AuthSmithAlt, type |-> "article",
     journal |-> "Nature", volume |-> "1", year |-> "2017"]
\* another title, other authors
EntryJonesC1 ==
    [title |-> TitleC1, author |-> AuthJones, type |-> "book", year |-> "2016"]
\* the title of EntryJonesC1 with the authors of EntrySmithAb
EntrySmithC1 ==
    [title |-> TitleC1Alt, author |-> AuthSmith, number |-> "2", pages |-> "1-9"]
\* no author
EntryAbOnly == [title |-> TitleAbAlt, year |-> "2016"]
\* no title
EntryJonesOnly == [author |-> AuthJonesAlt, journal |-> "Science"]

EntryPool == {EntrySmithAb, EntrySmithAbAlt, EntryJonesC1, EntrySmithC1,
              EntryAbOnly, EntryJonesOnly, NoFields}

\* the entries of the files given to the merge functions, which read the
\* title only: two titles, one of them written in two ways, and no title
MergePool == {EntrySmithAb, EntryAbOnly, EntryJonesC1, EntryJonesOnly}

KeyIndex(k) == CHOOSE n \in 1..Len(KeyPool) : KeyPool[n] = k

\* the dicts of n entries of pool under the first n names of KeyPool
OrderedDictsOf(pool, n) ==
    {[m \in 1..n |-> <<KeyPool[m], es[m]>>] : es \in [1..n -> pool]}

\* those of them that hold no record twice
DistinctDictsOf(pool, n) ==
    {d \in OrderedDictsOf(pool, n) : \A x, y \in 1..n : d[x][2] = d[y][2] => x = y}

\* the dicts of n entries of pool under any n keys of Keys, in the order of
\* the keys, which is the order yaml.dump writes a mapping in
KeyedDictsOf(pool, n) ==
    {[m \in 1..n |-> <<ks[m], es[m]>>] :
        ks \in {q \in [1..n -> Keys] :
                  \A x, y \in 1..n : x < y => KeyIndex(q[x]) < KeyIndex(q[y])},
        es \in [1..n -> pool]}

(***************************************************************************)
(* State.                                                                  *)
(***************************************************************************)
VARIABLES
    pc,             \* position of the running function
    bib_data1,      \* compare_files: bib_data1['entries']
    bib_data2,      \* compare_files: bib_data2['entries']
    idx1,           \* compare_files: position of key1 in the outer loop
    idx2,           \* compare_files: position of key2 in the inner loop
    found_ref,      \* compare_files: found_ref
    found_times,    \* compare_files: found_times
    matches,        \* compare_files: matches
    no_matches,     \* compare_files: no_matches
    match_counter,  \* compare_files: match_counter
    output_file,    \* compare_files: what was written to output_file
    yaml_file,      \* merge: the YAML document stored in the target file
    entry_data_A,   \* merge: the YAML document / the dict to add from
    ret,            \* merge: the value returned
    fn_in,          \* a function called on its own: its arguments
    fn_out          \* a function called on its own: the value returned

compareVars == <<bib_data1, bib_data2, idx1, idx2, found_ref, found_times,
                 matches, no_matches, match_counter, output_file>>

mergeVars == <<yaml_file, entry_data_A, ret>>

fnVars == <<fn_in, fn_out>>

vars == <<pc, compareVars, mergeVars, fnVars>>

\* fn_in and fn_out while compare_files or a merge function runs
NoCall == << >>

\* a YAML document that is a mapping: either {'entries': {key: entry}} or a
\* bare {key: entry}
Document(wrapped, entries) == [wrapped |-> wrapped, entries |-> entries]

NotReturned == "not returned"

\* the report file before compare_files opens it
NotWritten == [written |-> FALSE, rows |-> << >>, multi |-> EmptyDict,
               not_found |-> << >>]

(***************************************************************************)
(* compare_files.                                                          *)
(***************************************************************************)
\* lines 558-568: both files loaded, the three results empty, the first
\* left key (if any) about to be scanned
InitCompare ==
    /\ pc = "compare"
    /\ bib_data1 \in UNION {DistinctDictsOf(EntryPool, n) : n \in 0..MaxLeft}
    /\ bib_data2 \in UNION {DistinctDictsOf(EntryPool, n) : n \in 0..MaxRight}
    /\ idx1 = 1
    /\ idx2 = 1
    /\ found_ref = FALSE
    /\ found_times = 0
    /\ matches = << >>
    /\ no_matches = EmptyDict
    /\ match_counter = EmptyDict
    /\ output_file = NotWritten
    /\ yaml_file = Document(TRUE, EmptyDict)
    /\ entry_data_A = Document(TRUE, EmptyDict)
    /\ ret = NotReturned
    /\ fn_in = NoCall
    /\ fn_out = NoCall

\* one iteration of the inner loop with the test for a candidate, the test
\* for counting the pair and the way the row is added left open
ScanPairVariant(IsCandidate(_), IsCounted(_), AddRow(_, _)) ==
    /\ pc = "compare"
    /\ idx1 <= Len(bib_data1)
    /\ idx2 <= Len(bib_data2)
    /\ LET key1 == bib_data1[idx1][1]
           entry1 == bib_data1[idx1][2]
           key2 == bib_data2[idx2][1]
           entry2 == bib_data2[idx2][2]
           title_var == do_they_have(entry1, entry2, "title")
           author_var == do_they_have(entry1, entry2, "author")
       IN  IF IsCandidate(title_var + author_var)
           THEN /\ found_times' = IF IsCounted(title_var + author_var)
                                  THEN found_times + 1 ELSE found_times
                /\ found_ref' = TRUE
                /\ matches' = AddRow(matches, MatchRow(key1, entry1, key2, entry2))
           ELSE UNCHANGED <<found_times, found_ref, matches>>
    /\ idx2' = idx2 + 1
    /\ UNCHANGED <<pc, bib_data1, bib_data2, idx1, no_matches, match_counter,
                   output_file, mergeVars, fnVars>>

MoreThanTwo(sum) == sum > 2
AtLeastTwo(sum) == sum >= 2
IsSix(sum) == sum = 6
Prepend(rows, row) == <<row>> \o rows

\* ScanPair taking a sum of 2 (both fields present, both different) for a
\* candidate: >= 2 for > 2
ScanPair_at_least_two == ScanPairVariant(AtLeastTwo, IsSix, Append)

\* ScanPair counting every candidate, not only the strong ones
ScanPair_counts_weak == ScanPairVariant(MoreThanTwo, MoreThanTwo, Append)

\* ScanPair putting the new row first
ScanPair_prepends == ScanPairVariant(MoreThanTwo, IsSix, Prepend)

\* lines 570-581: one iteration of the inner loop
ScanPair ==
    /\ pc = "compare"
    /\ idx1 <= Len(bib_data1)
    /\ idx2 <= Len(bib_data2)
    /\ LET key1 == bib_data1[idx1][1]
           entry1 == bib_data1[idx1][2]
           key2 == bib_data2[idx2][1]
           entry2 == bib_data2[idx2][2]
           title_var == do_they_have(entry1, entry2, "title")
           author_var == do_they_have(entry1, entry2, "author")
       IN  IF title_var + author_var > 2
           THEN /\ found_times' = IF title_var + author_var = 6
                                  THEN found_times + 1 ELSE found_times
                /\ found_ref' = TRUE
                /\ matches' = Append(matches, MatchRow(key1, entry1, key2, entry2))
           ELSE UNCHANGED <<found_times, found_ref, matches>>
    /\ idx2' = idx2 + 1
    /\ UNCHANGED <<pc, bib_data1, bib_data2, idx1, no_matches, match_counter,
                   output_file, mergeVars, fnVars>>

\* EndLeft taking a left key without a strong match for unmatched
EndLeft_strong_only ==
    /\ pc = "compare"
    /\ idx1 <= Len(bib_data1)
    /\ idx2 > Len(bib_data2)
    /\ LET key1 == bib_data1[idx1][1]
           entry1 == bib_data1[idx1][2]
       IN  IF found_times > 0
           THEN /\ match_counter' = IF found_times > 1
                                    THEN DictSet(match_counter, key1, found_times)
                                    ELSE match_counter
                /\ UNCHANGED no_matches
           ELSE /\ no_matches' = DictSet(no_matches, key1, entry1)
                /\ UNCHANGED match_counter
    /\ idx1' = idx1 + 1
    /\ idx2' = 1
    /\ IF idx1 < Len(bib_data1)
       THEN found_ref' = FALSE /\ found_times' = 0
       ELSE UNCHANGED <<found_ref, found_times>>
    /\ UNCHANGED <<pc, bib_data1, bib_data2, matches, output_file, mergeVars, fnVars>>

\* lines 584-588, then lines 566-568 for the next left key
EndLeft ==
    /\ pc = "compare"
    /\ idx1 <= Len(bib_data1)
    /\ idx2 > Len(bib_data2)
    /\ LET key1 == bib_data1[idx1][1]
           entry1 == bib_data1[idx1][2]
       IN  IF found_ref
           THEN /\ match_counter' = IF found_times > 1
                                    THEN DictSet(match_counter, key1, found_times)
                                    ELSE match_counter
                /\ UNCHANGED no_matches
           ELSE /\ no_matches' = DictSet(no_matches, key1, entry1)
                /\ UNCHANGED match_counter
    /\ idx1' = idx1 + 1
    /\ idx2' = 1
    /\ IF idx1 < Len(bib_data1)
       THEN found_ref' = FALSE /\ found_times' = 0
       ELSE UNCHANGED <<found_ref, found_times>>
    /\ UNCHANGED <<pc, bib_data1, bib_data2, matches, output_file, mergeVars, fnVars>>

\* lines 590-611: the report is written once the outer loop has ended
WriteReport ==
    /\ pc = "compare"
    /\ idx1 > Len(bib_data1)
    /\ output_file' = [written |-> TRUE,
                       rows |-> matches,
                       multi |-> match_counter,
                       not_found |-> DictKeyList(no_matches)]
    /\ pc' = "done"
    /\ UNCHANGED <<bib_data1, bib_data2, idx1, idx2, found_ref, found_times,
                   matches, no_matches, match_counter, mergeVars, fnVars>>

NextCompare == ScanPair \/ EndLeft \/ WriteReport

SpecCompare == InitCompare /\ [][NextCompare]_vars

(***************************************************************************)
(* Merge: add_entry_yaml_to_yaml_referece, add_entry_dic_to_yaml_referece. *)
(***************************************************************************)
pull_entry(file_in) == file_in.entries

\* a document that Python takes for false: the empty mapping
IsFalsy(doc) == ~doc.wrapped /\ doc.entries = EmptyDict

\* InvertFold keeping the first key met for a normalized title
RECURSIVE InvertFold_first_stays(_, _, _)
InvertFold_first_stays(result, data_dic, n) ==
    IF n > Len(data_dic)
    THEN result
    ELSE LET key == data_dic[n][1]
             value == data_dic[n][2]
         IN  InvertFold_first_stays(
                 IF "title" \in DOMAIN value /\ normalize(value.title) \notin DOMAIN result
                 THEN MapSet(result, normalize(value.title), key)
                 ELSE result,
                 data_dic, n + 1)

RECURSIVE InvertFold(_, _, _)
InvertFold(result, data_dic, n) ==
    IF n > Len(data_dic)
    THEN result
    ELSE LET key == data_dic[n][1]
             value == data_dic[n][2]
         IN  InvertFold(IF "title" \in DOMAIN value
                        THEN MapSet(result, normalize(value.title), key)
                        ELSE result,
                        data_dic, n + 1)

\* the index normalized title -> key; of two entries with one normalized
\* title the later one stays
dict_invertion_w_no_key_warning(data_dic) == InvertFold(EmptyMap, data_dic, 1)

\* for key_add in values_to_get: target[key_add] = source[key_add]
RECURSIVE CopyEntries(_, _, _)
CopyEntries(target, source, values_to_get) ==
    IF values_to_get = {}
    THEN target
    ELSE LET key_add == CHOOSE k \in values_to_get : TRUE
         IN  CopyEntries(DictSet(target, key_add, DictGet(source, key_add)),
                         source, values_to_get \ {key_add})

\* yaml.dump writes a mapping with its keys sorted
RECURSIVE SortedByKey(_)
SortedByKey(d) ==
    IF d = EmptyDict
    THEN EmptyDict
    ELSE LET first == CHOOSE n \in 1..Len(d) :
                          \A m \in 1..Len(d) : KeyIndex(d[n][1]) <= KeyIndex(d[m][1])
         IN  <<d[first]>> \o SortedByKey([m \in 1..(Len(d) - 1) |->
                                             IF m < first THEN d[m] ELSE d[m + 1]])

\* MergeInto without the set difference: every indexed title is added
MergeInto_no_difference(data_inver_Data_pulled, entry_pulled) ==
    LET data_inver_Entry == dict_invertion_w_no_key_warning(entry_pulled)
        elements_add == DOMAIN data_inver_Entry
        values_to_get == {data_inver_Entry[t] : t \in elements_add}
    IN  IF elements_add # {}
        THEN /\ yaml_file' = Document(TRUE, SortedByKey(
                     CopyEntries(data_inver_Data_pulled, entry_pulled, values_to_get)))
             /\ ret' = "Done"
        ELSE /\ ret' = "all elements already exists"
             /\ UNCHANGED yaml_file

\* lines 1046-1066 and 941-962: the part the two merge functions share,
\* given the entries of the target and the entries to add from
MergeInto(data_inver_Data_pulled, entry_pulled) ==
    LET data_inver_Data == dict_invertion_w_no_key_warning(data_inver_Data_pulled)
        data_inver_Entry == dict_invertion_w_no_key_warning(entry_pulled)
        elements_add == (DOMAIN data_inver_Entry) \ (DOMAIN data_inver_Data)
        values_to_get == {data_inver_Entry[t] : t \in elements_add}
    IN  IF elements_add # {}
        THEN /\ yaml_file' = Document(TRUE, SortedByKey(
                     CopyEntries(data_inver_Data_pulled, entry_pulled, values_to_get)))
             /\ ret' = "Done"
        ELSE /\ ret' = "all elements already exists"
             /\ UNCHANGED yaml_file

InitMerge ==
    /\ pc = "merge"
    /\ yaml_file \in {Document(w, d) :
            w \in BOOLEAN,
            d \in UNION {OrderedDictsOf(MergePool, n) : n \in 0..MaxLeft}}
    /\ entry_data_A \in {Document(w, d) :
            w \in BOOLEAN,
            d \in UNION {KeyedDictsOf(MergePool, n) : n \in 0..MaxRight}}
    /\ ret = NotReturned
    /\ bib_data1 = EmptyDict
    /\ bib_data2 = EmptyDict
    /\ idx1 = 1
    /\ idx2 = 1
    /\ found_ref = FALSE
    /\ found_times = 0
    /\ matches = << >>
    /\ no_matches = EmptyDict
    /\ match_counter = EmptyDict
    /\ output_file = NotWritten
    /\ fn_in = NoCall
    /\ fn_out = NoCall

\* add_entry_yaml_to_yaml_referece(yaml_file, entry_data_A), both files
\* being .yaml files that exist
add_entry_yaml_to_yaml_referece ==
    /\ pc = "merge"
    /\ pc' = "done"
    /\ IF IsFalsy(entry_data_A) \/ ~yaml_file.wrapped
       THEN ret' = "None" /\ UNCHANGED yaml_file
       ELSE MergeInto(pull_entry(yaml_file), pull_entry(entry_data_A))
    /\ UNCHANGED <<entry_data_A, compareVars, fnVars>>

\* add_entry_dic_to_yaml_referece taking the added entries out of the dict
\* it was given (pop(key_add) for [key_add])
add_entry_dic_to_yaml_referece_pops ==
    /\ pc = "merge"
    /\ pc' = "done"
    /\ IF IsFalsy(entry_data_A) \/ ~yaml_file.wrapped
       THEN ret' = "None" /\ UNCHANGED <<yaml_file, entry_data_A>>
       ELSE IF entry_data_A.wrapped
       THEN ret' = "None" /\ UNCHANGED <<yaml_file, entry_data_A>>
       ELSE /\ MergeInto(pull_entry(yaml_file), entry_data_A.entries)
            /\ LET index == dict_invertion_w_no_key_warning(entry_data_A.entries)
                   taken == {index[t] : t \in (DOMAIN index) \
                                 DOMAIN dict_invertion_w_no_key_warning(pull_entry(yaml_file))}
                   IsLeft(item) == item[1] \notin taken
               IN  entry_data_A' = Document(FALSE, SelectSeq(entry_data_A.entries, IsLeft))
    /\ UNCHANGED <<compareVars, fnVars>>

\* add_entry_dic_to_yaml_referece(yaml_file, entry_data_A), entry_data_A
\* being a dict
add_entry_dic_to_yaml_referece ==
    /\ pc = "merge"
    /\ pc' = "done"
    /\ IF IsFalsy(entry_data_A) \/ ~yaml_file.wrapped
       THEN ret' = "None" /\ UNCHANGED yaml_file
       ELSE IF entry_data_A.wrapped
       THEN ret' = "None" /\ UNCHANGED yaml_file
       ELSE MergeInto(pull_entry(yaml_file), entry_data_A.entries)
    /\ UNCHANGED <<entry_data_A, compareVars, fnVars>>

NextMerge == add_entry_yaml_to_yaml_referece \/ add_entry_dic_to_yaml_referece

SpecMerge == InitMerge /\ [][NextMerge]_vars

(***************************************************************************)
(* The two matchers compare_files calls for a pair of entries, do_they_have*)
(* and field_values_match_multiple, and the row it builds from them, each  *)
(* called once on a pair of entries.                                       *)
(***************************************************************************)
ReportFieldSet == {ReportFields[n] : n \in 1..Len(ReportFields)}

\* entries of one report field, with two values that differ in case only
OneFieldEntries == {[x \in {f} |-> v] : f \in ReportFieldSet, v \in {"Nature", "nature"}}

MatcherPool == EntryPool \cup OneFieldEntries

\* fn_in while the entries are known and no matcher has been called
Pair(entry1, entry2) ==
    [fn |-> "none", entry1 |-> entry1, entry2 |-> entry2, field |-> "none"]

InitMatchers ==
    /\ pc = "call"
    /\ fn_in \in {Pair(e1, e2) : e1 \in MatcherPool, e2 \in MatcherPool}
    /\ fn_out = NoCall
    /\ bib_data1 = EmptyDict
    /\ bib_data2 = EmptyDict
    /\ idx1 = 1
    /\ idx2 = 1
    /\ found_ref = FALSE
    /\ found_times = 0
    /\ matches = << >>
    /\ no_matches = EmptyDict
    /\ match_counter = EmptyDict
    /\ output_file = NotWritten
    /\ yaml_file = Document(TRUE, EmptyDict)
    /\ entry_data_A = Document(TRUE, EmptyDict)
    /\ ret = NotReturned

\* lines 571-572: do_they_have(entry1, entry2, 'title' / 'author')
CallDoTheyHave ==
    /\ pc = "call"
    /\ \E f \in {"title", "author"} :
          /\ fn_in' = [fn_in EXCEPT !.fn = "do_they_have", !.field = f]
          /\ fn_out' = <<do_they_have(fn_in.entry1, fn_in.entry2, f)>>
    /\ pc' = "returned"
    /\ UNCHANGED <<compareVars, mergeVars>>

\* line 580: field_values_match_multiple(entry1, entry2, field_name)
CallFieldValuesMatch ==
    /\ pc = "call"
    /\ \E f \in ReportFieldSet :
          /\ fn_in' = [fn_in EXCEPT !.fn = "field_values_match_multiple", !.field = f]
          /\ fn_out' = <<field_values_match_multiple(fn_in.entry1, fn_in.entry2, f)>>
    /\ pc' = "returned"
    /\ UNCHANGED <<compareVars, mergeVars>>

\* lines 574-581: the row built for a candidate pair
BuildRow ==
    /\ pc = "call"
    /\ do_they_have(fn_in.entry1, fn_in.entry2, "title")
         + do_they_have(fn_in.entry1, fn_in.entry2, "author") > 2
    /\ fn_in' = [fn_in EXCEPT !.fn = "row"]
    /\ fn_out' = MatchRow("k1", fn_in.entry1, "k2", fn_in.entry2)
    /\ pc' = "returned"
    /\ UNCHANGED <<compareVars, mergeVars>>

NextMatchers == CallDoTheyHave \/ CallFieldValuesMatch \/ BuildRow

SpecMatchers == InitMatchers /\ [][NextMatchers]_vars

(***************************************************************************)
(* author_name_equivalence and entries_match(.., 'author'), each called on *)
(* a pair of entries with an author field.                                 *)
(***************************************************************************)
\* the longest author list
MaxAuthors == 2

\* persons with a first name written in full or as an initial, with a first
\* and a middle name, with a middle name only and with neither
Persons ==
    {[last |-> "Smith", first |-> John],
     [last |-> "Smith", first |-> JDot],
     [last |-> "Smith", first |-> Ann, middle |-> Bea],
     [last |-> "Jones", middle |-> BDot],
     [last |-> "Jones"],
     [last |-> "Jones", first |-> Ann]}

AuthorLists == UNION {[1..n -> Persons] : n \in 0..MaxAuthors}

InitAuthors ==
    /\ pc = "call"
    /\ fn_in \in {Pair([author |-> a1], [author |-> a2]) :
                     a1 \in AuthorLists, a2 \in AuthorLists}
    /\ fn_out = NoCall
    /\ bib_data1 = EmptyDict
    /\ bib_data2 = EmptyDict
    /\ idx1 = 1
    /\ idx2 = 1
    /\ found_ref = FALSE
    /\ found_times = 0
    /\ matches = << >>
    /\ no_matches = EmptyDict
    /\ match_counter = EmptyDict
    /\ output_file = NotWritten
    /\ yaml_file = Document(TRUE, EmptyDict)
    /\ entry_data_A = Document(TRUE, EmptyDict)
    /\ ret = NotReturned

\* author_name_equivalence called on each of the two entries
CallAuthorNameEquivalence ==
    /\ pc = "call"
    /\ fn_in' = [fn_in EXCEPT !.fn = "author_name_equivalence", !.field = "author"]
    /\ fn_out' = <<author_name_equivalence(fn_in.entry1),
                   author_name_equivalence(fn_in.entry2)>>
    /\ pc' = "returned"
    /\ UNCHANGED <<compareVars, mergeVars>>

\* entries_match(.., 'author') called on the two entries, on the two
\* entries the other way round and on the first entry with itself
CallEntriesMatch ==
    /\ pc = "call"
    /\ fn_in' = [fn_in EXCEPT !.fn = "entries_match", !.field = "author"]
    /\ fn_out' = <<entries_match(fn_in.entry1, fn_in.entry2, "author"),
                   entries_match(fn_in.entry2, fn_in.entry1, "author"),
                   entries_match(fn_in.entry1, fn_in.entry1, "author")>>
    /\ pc' = "returned"
    /\ UNCHANGED <<compareVars, mergeVars>>

NextAuthors == CallAuthorNameEquivalence \/ CallEntriesMatch

SpecAuthors == InitAuthors /\ [][NextAuthors]_vars

(***************************************************************************)
(* normalize, called on a string and then on its own result.               *)
(***************************************************************************)
\* the longest string given to normalize
MaxLen == 3

Strings == UNION {[1..n -> Chars] : n \in 0..MaxLen}

InitNormalize ==
    /\ pc = "normalize"
    /\ fn_in \in Strings
    /\ fn_out = NoCall
    /\ bib_data1 = EmptyDict
    /\ bib_data2 = EmptyDict
    /\ idx1 = 1
    /\ idx2 = 1
    /\ found_ref = FALSE
    /\ found_times = 0
    /\ matches = << >>
    /\ no_matches = EmptyDict
    /\ match_counter = EmptyDict
    /\ output_file = NotWritten
    /\ yaml_file = Document(TRUE, EmptyDict)
    /\ entry_data_A = Document(TRUE, EmptyDict)
    /\ ret = NotReturned

\* normalize(s)
CallNormalize ==
    /\ pc = "normalize"
    /\ fn_out' = normalize(fn_in)
    /\ pc' = "normalized"
    /\ UNCHANGED <<fn_in, compareVars, mergeVars>>

\* normalize called on the string the first call returned
CallNormalizeAgain ==
    /\ pc = "normalized"
    /\ fn_in' = fn_out
    /\ fn_out' = normalize(fn_out)
    /\ pc' = "normalized twice"
    /\ UNCHANGED <<compareVars, mergeVars>>

NextNormalize == CallNormalize \/ CallNormalizeAgain

SpecNormalize == InitNormalize /\ [][NextNormalize]_vars

(***************************************************************************)
(* compare_files and the two merge functions run on files that may hold    *)
(* what the code does not expect: an author without a last name, for which *)
(* author['last'] raises, and a YAML document that is a list.  A call that *)
(* raises ends with pc = "error".                                          *)
(***************************************************************************)
\* the loop body of author_name_equivalence raises for a person with a first
\* name and no last name
AuthorRaises_without_first(author) ==
    \/ "last" \notin DOMAIN author
    \/ "first" \notin DOMAIN author
    \/ "first" \in DOMAIN author /\ author.first = << >>
    \/ "middle" \in DOMAIN author /\ author.middle = << >>

\* the loop body of author_name_equivalence raises: author['last'] (line
\* 474) without a last name, author['first'][0], author['middle'][0]
\* (lines 476, 481) on an empty name
AuthorRaises(author) ==
    \/ "last" \notin DOMAIN author
    \/ "first" \in DOMAIN author /\ author.first = << >>
    \/ "middle" \in DOMAIN author /\ author.middle = << >>

author_name_equivalence_raises(entry) ==
    \E n \in 1..Len(entry.author) : AuthorRaises(entry.author[n])

\* do_they_have raises when it comes to compare the authors and one of the
\* two fingerprints cannot be built
do_they_have_raises(ref1, ref2, Check_if_have) ==
    /\ Check_if_have = "author"
    /\ "author" \in DOMAIN ref1 /\ "author" \in DOMAIN ref2
    /\ author_name_equivalence_raises(ref1) \/ author_name_equivalence_raises(ref2)

\* an entry whose author has no last name
EntryNoLast == [title |-> TitleAb, author |-> << [first |-> John] >>]

RunPool == {EntrySmithAb, EntrySmithAbAlt, EntryJonesOnly, EntryNoLast}

RunMergePool == {EntrySmithAb, EntryJonesOnly}

\* a YAML document that is a list with something in it
AList == [wrapped |-> FALSE, entries |-> EmptyDict, mapping |-> FALSE]

IsMapping(doc) == "mapping" \notin DOMAIN doc

InitRun ==
    /\ \/ /\ pc = "compare"
          /\ bib_data1 \in UNION {DistinctDictsOf(RunPool, n) : n \in 0..MaxLeft}
          /\ bib_data2 \in UNION {DistinctDictsOf(RunPool, n) : n \in 0..MaxRight}
          /\ yaml_file = Document(TRUE, EmptyDict)
          /\ entry_data_A = Document(TRUE, EmptyDict)
       \/ /\ pc = "merge"
          /\ bib_data1 = EmptyDict
          /\ bib_data2 = EmptyDict
          /\ yaml_file \in {Document(w, d) :
                  w \in BOOLEAN,
                  d \in UNION {OrderedDictsOf(RunMergePool, n) : n \in 0..MaxLeft}}
          /\ entry_data_A \in {AList} \cup {Document(w, d) :
                  w \in BOOLEAN,
                  d \in UNION {KeyedDictsOf(RunMergePool, n) : n \in 0..MaxRight}}
    /\ idx1 = 1
    /\ idx2 = 1
    /\ found_ref = FALSE
    /\ found_times = 0
    /\ matches = << >>
    /\ no_matches = EmptyDict
    /\ match_counter = EmptyDict
    /\ output_file = NotWritten
    /\ ret = NotReturned
    /\ fn_in = NoCall
    /\ fn_out = NoCall

\* the pair the inner loop of compare_files is at makes do_they_have raise
PairRaises ==
    do_they_have_raises(bib_data1[idx1][2], bib_data2[idx2][2], "author")

\* lines 570-581 for a pair that raises nothing
ScanPairReturns ==
    /\ pc = "compare"
    /\ idx1 <= Len(bib_data1)
    /\ idx2 <= Len(bib_data2)
    /\ ~PairRaises
    /\ ScanPair

\* ScanPairRaises with the report opened before the scan, so that what was
\* found up to the failure is in the file
ScanPairRaises_report_open ==
    /\ pc = "compare"
    /\ idx1 <= Len(bib_data1)
    /\ idx2 <= Len(bib_data2)
    /\ PairRaises
    /\ pc' = "error"
    /\ output_file' = [written |-> TRUE,
                       rows |-> matches,
                       multi |-> match_counter,
                       not_found |-> DictKeyList(no_matches)]
    /\ UNCHANGED <<bib_data1, bib_data2, idx1, idx2, found_ref, found_times,
                   matches, no_matches, match_counter, mergeVars, fnVars>>

\* line 572 raises: compare_files ends there, before line 590 opens the
\* report
ScanPairRaises ==
    /\ pc = "compare"
    /\ idx1 <= Len(bib_data1)
    /\ idx2 <= Len(bib_data2)
    /\ PairRaises
    /\ pc' = "error"
    /\ UNCHANGED <<compareVars, mergeVars, fnVars>>

\* add_entry_yaml_to_yaml_referece on any YAML document: a list passes
\* line 1043 when it is not empty and has no items() at line 1048
MergeYamlRun ==
    IF IsMapping(entry_data_A)
    THEN add_entry_yaml_to_yaml_referece
    ELSE /\ pc = "merge"
         /\ IF ~yaml_file.wrapped
            THEN pc' = "done" /\ ret' = "None"
            ELSE pc' = "error" /\ UNCHANGED ret
         /\ UNCHANGED <<yaml_file, entry_data_A, compareVars, fnVars>>

\* add_entry_dic_to_yaml_referece on any object: a list is turned down at
\* line 929 or at line 933
MergeDicRun ==
    IF IsMapping(entry_data_A)
    THEN add_entry_dic_to_yaml_referece
    ELSE /\ pc = "merge"
         /\ pc' = "done"
         /\ ret' = "None"
         /\ UNCHANGED <<yaml_file, entry_data_A, compareVars, fnVars>>

NextRun ==
    \/ ScanPairReturns
    \/ ScanPairRaises
    \/ EndLeft
    \/ WriteReport
    \/ MergeYamlRun
    \/ MergeDicRun

SpecRun == InitRun /\ [][NextRun]_vars

(***************************************************************************)
(* preprocess_bibtex_without_key_id.  A line of the BibTeX file is an      *)
(* entry header, @type{key, or a field, name = {value},                    *)
(***************************************************************************)
\* the most lines of a file
MaxLines == 3

HeaderLine(type, key) == [kind |-> "header", type |-> type, key |-> key]
FieldLine(name, value) == [kind |-> "field", name |-> name, value |-> value]

\* entry_types, and the types as re.IGNORECASE takes them
entry_types == {"article", "book"}
TypeLower(type) == IF type = "Book" THEN "book" ELSE type

AsciiLetters == {"a", "b", "c", "s", "A", "B", "C"}

\* line 650: @type\s*{[a-zA-Z]+\s*, for a type of entry_types
MatchesKeyedHeader(line) ==
    /\ line.kind = "header"
    /\ TypeLower(line.type) \in entry_types
    /\ line.key # << >>
    /\ \A n \in 1..Len(line.key) : line.key[n] \in AsciiLetters

\* line 653: @type\s*{\s*, for a type of entry_types
MatchesKeylessHeader(line) ==
    /\ line.kind = "header"
    /\ TypeLower(line.type) \in entry_types
    /\ line.key = << >>

\* line 661: author\s*=\s*\{\s*\}\s*,
MatchesEmptyAuthor(line) ==
    /\ line.kind = "field"
    /\ line.name = "author"
    /\ line.value = ""

DigitChars == <<"0", "1", "2", "3", "4", "5", "6", "7", "8", "9">>

\* str(index), for an index below 100
Str(index) ==
    IF index < 10
    THEN <<DigitChars[index + 1]>>
    ELSE <<DigitChars[(index \div 10) + 1], DigitChars[(index % 10) + 1]>>

\* s.zfill(3)
ZFill3(s) == [n \in 1..(3 - Len(s)) |-> "0"] \o s

generate_bib_key(id_name, index) == id_name \o <<"-">> \o ZFill3(Str(index))

IDstart == <<"r", "e", "f">>
counter_start == 1

\* IDKEY before its first assignment
Unbound == [bound |-> FALSE]
Bound(value) == [bound |-> TRUE, value |-> value]

\* lines 649-662: the body of the loop for one line; st holds index, IDKEY,
\* the lines written, missing_authors and whether the loop has raised
PreprocessLine(st, line) ==
    LET written ==
            IF MatchesKeyedHeader(line)
            THEN [st EXCEPT !.IDKEY = Bound(line)]
            ELSE IF MatchesKeylessHeader(line)
            THEN [st EXCEPT !.IDKEY = Bound(generate_bib_key(IDstart, st.index)),
                            !.output = Append(@, HeaderLine(line.type,
                                           generate_bib_key(IDstart, st.index))),
                            !.index = @ + 1]
            ELSE [st EXCEPT !.output = Append(@, line)]
    IN  IF MatchesEmptyAuthor(line)
        THEN IF written.IDKEY.bound
             THEN [written EXCEPT !.missing_authors = Append(@, written.IDKEY)]
             ELSE [written EXCEPT !.raised = TRUE]
        ELSE written

RECURSIVE PreprocessLines(_, _, _)
PreprocessLines(st, lines, n) ==
    IF n > Len(lines) \/ st.raised
    THEN st
    ELSE PreprocessLines(PreprocessLine(st, lines[n]), lines, n + 1)

\* a header with a key of letters, one with a key of letters and digits,
\* one without key, one without key whose type is written with a capital,
\* one without key of a type that is not in entry_types, a title, and an
\* author field with nothing in it
LinePool ==
    {HeaderLine("article", <<"s">>),
     HeaderLine("article", <<"s", "1">>),
     HeaderLine("article", << >>),
     HeaderLine("Book", << >>),
     HeaderLine("online", << >>),
     FieldLine("title", "A b"),
     FieldLine("author", "")}

InitPreprocess ==
    /\ pc = "preprocess"
    /\ fn_in \in UNION {[1..n -> LinePool] : n \in 0..MaxLines}
    /\ fn_out = NoCall
    /\ bib_data1 = EmptyDict
    /\ bib_data2 = EmptyDict
    /\ idx1 = 1
    /\ idx2 = 1
    /\ found_ref = FALSE
    /\ found_times = 0
    /\ matches = << >>
    /\ no_matches = EmptyDict
    /\ match_counter = EmptyDict
    /\ output_file = NotWritten
    /\ yaml_file = Document(TRUE, EmptyDict)
    /\ entry_data_A = Document(TRUE, EmptyDict)
    /\ ret = NotReturned

\* preprocess_bibtex_without_key_id(input_filename, output_filename): fn_in
\* is the lines of the input file, fn_out the lines of the output file
preprocess_bibtex_without_key_id ==
    /\ pc = "preprocess"
    /\ LET st == PreprocessLines([index |-> counter_start, IDKEY |-> Unbound,
                                  output |-> << >>, missing_authors |-> << >>,
                                  raised |-> FALSE], fn_in, 1)
       IN  /\ fn_out' = st.output
           /\ pc' = IF st.raised THEN "error" ELSE "done"
    /\ UNCHANGED <<fn_in, compareVars, mergeVars>>

NextPreprocess == preprocess_bibtex_without_key_id

SpecPreprocess == InitPreprocess /\ [][NextPreprocess]_vars

(***************************************************************************)
(* add_entry_dic_to_yaml: the target file holds the entries themselves,    *)
(* not under 'entries'.                                                    *)
(***************************************************************************)
InitAddDic ==
    /\ pc = "add"
    /\ yaml_file \in {Document(FALSE, d) :
            d \in UNION {OrderedDictsOf(RunMergePool, n) : n \in 0..MaxLeft}}
    /\ entry_data_A \in {AList} \cup {Document(w, d) :
            w \in BOOLEAN,
            d \in UNION {KeyedDictsOf(RunMergePool, n) : n \in 0..MaxRight}}
    /\ ret = NotReturned
    /\ bib_data1 = EmptyDict
    /\ bib_data2 = EmptyDict
    /\ idx1 = 1
    /\ idx2 = 1
    /\ found_ref = FALSE
    /\ found_times = 0
    /\ matches = << >>
    /\ no_matches = EmptyDict
    /\ match_counter = EmptyDict
    /\ output_file = NotWritten
    /\ fn_in = NoCall
    /\ fn_out = NoCall

\* add_entry_dic_to_yaml(yaml_file, entry_data_A): the loop of line 896
\* writes the file and returns in its first iteration, on the key the set
\* elements_add gives first, which may be any of its keys
add_entry_dic_to_yaml ==
    /\ pc = "add"
    /\ pc' = "done"
    /\ IF ~IsMapping(entry_data_A) \/ entry_data_A.wrapped
       THEN ret' = "None" /\ UNCHANGED yaml_file
       ELSE LET open_yaml_Data == yaml_file.entries
                open_dic_Entry == entry_data_A.entries
                elements_add == DictKeys(open_dic_Entry) \ DictKeys(open_yaml_Data)
            IN  IF elements_add # {}
                THEN /\ \E key_add \in elements_add :
                          yaml_file' = Document(FALSE, SortedByKey(
                              DictSet(open_yaml_Data, key_add,
                                      DictGet(open_dic_Entry, key_add))))
                     /\ ret' = "Done"
                ELSE /\ ret' = "all elements already exists"
                     /\ UNCHANGED yaml_file
    /\ UNCHANGED <<entry_data_A, compareVars, fnVars>>

NextAddDic == add_entry_dic_to_yaml

SpecAddDic == InitAddDic /\ [][NextAddDic]_vars

(***************************************************************************)
(* Vocabulary of the properties of compare_files.                          *)
(***************************************************************************)
LeftEntry(i) == bib_data1[i][2]
RightEntry(j) == bib_data2[j][2]
LeftKey(i) == bib_data1[i][1]
RightKey(j) == bib_data2[j][1]

TitleScore(i, j) == do_they_have(LeftEntry(i), RightEntry(j), "title")
AuthorScore(i, j) == do_they_have(LeftEntry(i), RightEntry(j), "author")

\* the pair (i, j) is a candidate match / a strong match
Candidate(i, j) == TitleScore(i, j) + AuthorScore(i, j) > 2
Strong(i, j) == TitleScore(i, j) = 3 /\ AuthorScore(i, j) = 3

Has(entry, field) == field \in DOMAIN entry

\* the two entries have the field and agree on it
TitleAgree(e1, e2) ==
    Has(e1, "title") /\ Has(e2, "title") /\ normalize(e1.title) = normalize(e2.title)
AuthorAgree(e1, e2) ==
    /\ Has(e1, "author") /\ Has(e2, "author")
    /\ author_name_equivalence(e1) = author_name_equivalence(e2)

LeftIdx == 1..Len(bib_data1)
RightIdx == 1..Len(bib_data2)

\* compare_files has run to its end
Compared == pc = "done" /\ output_file.written

\* the pairs the two loops have been through
Scanned(i, j) == i < idx1 \/ (i = idx1 /\ j < idx2)

HasRow(k1, k2) == \E n \in 1..Len(matches) : matches[n][1] = k1 /\ matches[n][2] = k2

\* a row for the pair that reports title and author as agreeing
HasYesYesRow(k1, k2) ==
    \E n \in 1..Len(matches) :
        /\ matches[n][1] = k1 /\ matches[n][2] = k2
        /\ matches[n][3] = "Yes" /\ matches[n][4] = "Yes"

\* every key of the reconciled collection strong-matches itself
EveryKeyStrongMatchesItself ==
    /\ \A i \in LeftIdx :
          /\ TitleAgree(LeftEntry(i), RightEntry(i))
          /\ AuthorAgree(LeftEntry(i), RightEntry(i))
          /\ HasYesYesRow(LeftKey(i), RightKey(i))
    /\ no_matches = EmptyDict

(***************************************************************************)
(* C1                                                                      *)
(***************************************************************************)
\* C1 as stated: reconciling any collection against itself, every key has
\* title score 3 and author score 3 with itself, a row (k, k, Yes, Yes) is
\* emitted and the unmatched set is empty.
C1_SelfReconcileAnyCollection ==
    (Compared /\ bib_data1 = bib_data2) => EveryKeyStrongMatchesItself

\* C1 as amended: the same, for a collection whose records all have a title
\* and an author field.
C1_SelfReconcileTitledAuthored ==
    (/\ Compared
     /\ bib_data1 = bib_data2
     /\ \A i \in LeftIdx : Has(LeftEntry(i), "title") /\ Has(LeftEntry(i), "author"))
    => EveryKeyStrongMatchesItself

\* a collection of two different records with title and author has been
\* reconciled against itself
C1_Witness ==
    /\ Compared
    /\ bib_data1 = bib_data2
    /\ Len(bib_data1) = 2
    /\ LeftEntry(1) # LeftEntry(2)
    /\ \A i \in LeftIdx : Has(LeftEntry(i), "title") /\ Has(LeftEntry(i), "author")
    /\ Len(matches) >= 2

(***************************************************************************)
(* C2                                                                      *)
(***************************************************************************)
NoSharedTitle ==
    \A i \in LeftIdx, j \in RightIdx : ~TitleAgree(LeftEntry(i), RightEntry(j))

NoSharedAuthors ==
    \A i \in LeftIdx, j \in RightIdx : ~AuthorAgree(LeftEntry(i), RightEntry(j))

NothingMatched ==
    /\ matches = << >>
    /\ DictKeys(no_matches) = DictKeys(bib_data1)

\* C2 as stated: when no left title equals a right title after
\* normalization, no row is emitted and the unmatched set is the set of all
\* left keys.
C2_DisjointTitlesNothingMatched ==
    (Compared /\ NoSharedTitle) => NothingMatched

\* C2 as amended: when no left record agrees with a right record on the
\* title nor on the authors, no row is emitted and the unmatched set is the
\* set of all left keys.
C2_DisjointTitlesAndAuthorsNothingMatched ==
    (Compared /\ NoSharedTitle /\ NoSharedAuthors) => NothingMatched

\* two collections that agree on nothing, although a left and a right
\* record both have title and author, have been reconciled
C2_Witness ==
    /\ Compared
    /\ NoSharedTitle /\ NoSharedAuthors
    /\ Len(bib_data1) = 2
    /\ \E i \in LeftIdx, j \in RightIdx :
          /\ Has(LeftEntry(i), "title") /\ Has(RightEntry(j), "title")
          /\ Has(LeftEntry(i), "author") /\ Has(RightEntry(j), "author")
    /\ Len(no_matches) = 2

(***************************************************************************)
(* C5                                                                      *)
(***************************************************************************)
Verdicts == {0, 1, 3}

\* the last row of matches is the row of the pair (i, j)
LastRowIs(i, j) ==
    /\ matches # << >>
    /\ matches[Len(matches)][1] = LeftKey(i)
    /\ matches[Len(matches)][2] = RightKey(j)

\* C5: for the pair the inner loop has just been through, both scores are
\* in {0,1,3}; the pair got a row and set found_ref iff the sum of the
\* scores exceeds 2, which is iff one of the two scores is 3; and found_ref
\* is set iff some pair of the current left key scanned so far is such a pair.
C5_CandidateIffAScoreIsThree ==
    (pc = "compare" /\ idx1 <= Len(bib_data1) /\ idx2 > 1) =>
        LET t == TitleScore(idx1, idx2 - 1)
            a == AuthorScore(idx1, idx2 - 1)
        IN  /\ t \in Verdicts /\ a \in Verdicts
            /\ (t + a > 2) <=> (t = 3 \/ a = 3)
            /\ LastRowIs(idx1, idx2 - 1) <=> (t = 3 \/ a = 3)
            /\ (t = 3 \/ a = 3) => found_ref
            /\ found_ref <=> \E j \in 1..(idx2 - 1) :
                                TitleScore(idx1, j) = 3 \/ AuthorScore(idx1, j) = 3

\* the loop has just been through a candidate pair whose title score is 1
\* and, before it, through a pair with the scores 1 and 1
C5_Witness ==
    /\ pc = "compare" /\ idx1 <= Len(bib_data1) /\ idx2 = 3
    /\ TitleScore(idx1, 1) = 1 /\ AuthorScore(idx1, 1) = 1
    /\ TitleScore(idx1, 2) = 1 /\ AuthorScore(idx1, 2) = 3
    /\ LastRowIs(idx1, 2)
    /\ found_ref

(***************************************************************************)
(* C6                                                                      *)
(***************************************************************************)
AbsentFromBoth(e1, e2, field) == ~Has(e1, field) /\ ~Has(e2, field)

\* C6 as stated: a pair has a row exactly when it is not the case that the
\* title is absent from both records and the author is absent from both.
C6_CandidateUnlessBothAbsent ==
    Compared =>
        \A i \in LeftIdx, j \in RightIdx :
            HasRow(LeftKey(i), RightKey(j)) <=>
                ~(/\ AbsentFromBoth(LeftEntry(i), RightEntry(j), "title")
                  /\ AbsentFromBoth(LeftEntry(i), RightEntry(j), "author"))

\* C6 as amended: a pair has a row exactly when the two records both have
\* a title and agree on it or both have authors and agree on them; a pair
\* with title and author absent from both records has none, and neither has
\* a pair whose title and author are each missing on one side or different.
C6_CandidateIffAFieldAgrees ==
    Compared =>
        \A i \in LeftIdx, j \in RightIdx :
            /\ HasRow(LeftKey(i), RightKey(j)) <=>
                   (\/ TitleAgree(LeftEntry(i), RightEntry(j))
                    \/ AuthorAgree(LeftEntry(i), RightEntry(j)))
            /\ (/\ AbsentFromBoth(LeftEntry(i), RightEntry(j), "title")
                /\ AbsentFromBoth(LeftEntry(i), RightEntry(j), "author"))
               => ~HasRow(LeftKey(i), RightKey(j))

\* a reconciliation with a pair that has title and author on both sides and
\* no row, and a pair with both fields absent from both records
C6_Witness ==
    /\ Compared
    /\ \E i \in LeftIdx, j \in RightIdx :
          /\ Has(LeftEntry(i), "title") /\ Has(RightEntry(j), "title")
          /\ Has(LeftEntry(i), "author") /\ Has(RightEntry(j), "author")
          /\ ~HasRow(LeftKey(i), RightKey(j))
    /\ \E i \in LeftIdx, j \in RightIdx :
          /\ AbsentFromBoth(LeftEntry(i), RightEntry(j), "title")
          /\ AbsentFromBoth(LeftEntry(i), RightEntry(j), "author")

(***************************************************************************)
(* C7                                                                      *)
(***************************************************************************)
\* the right records that agree with left record i on title and on authors
StrongMatches(i) ==
    {j \in RightIdx : /\ TitleAgree(LeftEntry(i), RightEntry(j))
                      /\ AuthorAgree(LeftEntry(i), RightEntry(j))}

\* C7: after the scan of all right keys for every left key, a left key is
\* in the multi-match map iff more than one right record is a strong match
\* for it, and its count is the number of these records; during a scan
\* found_times is the number of strong matches among the right records
\* scanned so far, whatever the number of weak candidates among them.
C7_MultiMatchCountsStrongOnly ==
    /\ (pc = "compare" /\ idx1 <= Len(bib_data1)) =>
          found_times = Cardinality({j \in 1..(idx2 - 1) :
                            /\ TitleAgree(LeftEntry(idx1), RightEntry(j))
                            /\ AuthorAgree(LeftEntry(idx1), RightEntry(j))})
    /\ Compared =>
          /\ DictKeys(match_counter) \subseteq DictKeys(bib_data1)
          /\ \A i \in LeftIdx :
                /\ LeftKey(i) \in DictKeys(match_counter) <=>
                       Cardinality(StrongMatches(i)) > 1
                /\ LeftKey(i) \in DictKeys(match_counter) =>
                       DictGet(match_counter, LeftKey(i)) = Cardinality(StrongMatches(i))
          /\ output_file.multi = match_counter

\* one left key with two strong matches is in the map; another left key
\* with two weak candidates is not
C7_Witness ==
    /\ Compared
    /\ \E i \in LeftIdx :
          /\ LeftKey(i) \in DictKeys(match_counter)
          /\ DictGet(match_counter, LeftKey(i)) = 2
    /\ \E i \in LeftIdx :
          /\ StrongMatches(i) = {}
          /\ \A j \in RightIdx : Candidate(i, j)
          /\ LeftKey(i) \notin DictKeys(match_counter)

(***************************************************************************)
(* C8                                                                      *)
(***************************************************************************)
\* C8: after reconciliation a left key is in the unmatched set, with its
\* full record, iff no right record is a candidate match for it; during the
\* scan of a left key that has had a candidate, the key is not in the set.
C8_UnmatchedIffNoCandidate ==
    /\ (pc = "compare" /\ idx1 <= Len(bib_data1) /\ found_ref) =>
          LeftKey(idx1) \notin DictKeys(no_matches)
    /\ Compared =>
          /\ DictKeys(no_matches) \subseteq DictKeys(bib_data1)
          /\ \A i \in LeftIdx :
                /\ LeftKey(i) \in DictKeys(no_matches) <=>
                       \A j \in RightIdx :
                           /\ ~TitleAgree(LeftEntry(i), RightEntry(j))
                           /\ ~AuthorAgree(LeftEntry(i), RightEntry(j))
                /\ LeftKey(i) \in DictKeys(no_matches) =>
                       DictGet(no_matches, LeftKey(i)) = LeftEntry(i)
          /\ output_file.not_found = DictKeyList(no_matches)

\* one left key whose only candidate is a weak one is not in the unmatched
\* set, another left key without a candidate is
C8_Witness ==
    /\ Compared
    /\ \E i \in LeftIdx :
          /\ StrongMatches(i) = {}
          /\ \E j \in RightIdx : Candidate(i, j)
          /\ LeftKey(i) \notin DictKeys(no_matches)
    /\ \E i \in LeftIdx : LeftKey(i) \in DictKeys(no_matches)

(***************************************************************************)
(* C9                                                                      *)
(***************************************************************************)
\* position of a key in the iteration order of a dict
Position(d, k) == CHOOSE n \in 1..Len(d) : d[n][1] = k

RowsOf(i, j) ==
    {n \in 1..Len(matches) : matches[n][1] = LeftKey(i) /\ matches[n][2] = RightKey(j)}

\* row m comes from a pair that the two loops reach before the pair of row n
RowBefore(m, n) ==
    LET i1 == Position(bib_data1, matches[m][1])
        i2 == Position(bib_data1, matches[n][1])
        j1 == Position(bib_data2, matches[m][2])
        j2 == Position(bib_data2, matches[n][2])
    IN  i1 < i2 \/ (i1 = i2 /\ j1 < j2)

\* C9: the report has exactly one row for every candidate pair, none for
\* another pair, and its rows are in left-then-right iteration order.
C9_OneRowPerCandidateInOrder ==
    Compared =>
        /\ \A i \in LeftIdx, j \in RightIdx :
              Cardinality(RowsOf(i, j)) = IF Candidate(i, j) THEN 1 ELSE 0
        /\ \A n \in 1..Len(matches) :
              /\ matches[n][1] \in DictKeys(bib_data1)
              /\ matches[n][2] \in DictKeys(bib_data2)
        /\ \A m, n \in 1..Len(matches) : m < n => RowBefore(m, n)
        /\ output_file.rows = matches

\* a report with rows of two left keys, two of them for one left key, and a
\* pair without a row
C9_Witness ==
    /\ Compared
    /\ Len(matches) = 3
    /\ matches[1][1] = matches[2][1]
    /\ matches[2][1] # matches[3][1]
    /\ \E i \in LeftIdx, j \in RightIdx : ~Candidate(i, j)

(***************************************************************************)
(* Vocabulary of the properties of the merge functions.                    *)
(***************************************************************************)
\* a step that is a call of one of the two merge functions
MergeCall == pc = "merge" /\ pc' = "done"

Primary == yaml_file.entries
Incoming == entry_data_A.entries

\* the normalized titles of a collection
Fingerprints(d) ==
    {normalize(d[n][2].title) : n \in {m \in 1..Len(d) : Has(d[m][2], "title")}}

\* the keys of the incoming records that the merge selects for addition
SelectedKeys ==
    LET index == dict_invertion_w_no_key_warning(Incoming)
    IN  {index[t] : t \in (DOMAIN index) \ Fingerprints(Primary)}

\* the record of primary under key k is still there after the step
Kept(k) ==
    /\ k \in DictKeys(yaml_file'.entries)
    /\ DictGet(yaml_file'.entries, k) = DictGet(Primary, k)

(***************************************************************************)
(* C3                                                                      *)
(***************************************************************************)
\* C3: a merge in which a record selected for addition has a key that is
\* already a key of primary does not return "Done" and leaves the target
\* as it was; and no merge replaces the record under a key of primary.
C3_KeyCollisionIsAnError ==
    [][MergeCall =>
         /\ (SelectedKeys \cap DictKeys(Primary) # {}) =>
                (ret' # "Done" /\ yaml_file' = yaml_file)
         /\ \A k \in DictKeys(Primary) : Kept(k)]_vars

(***************************************************************************)
(* C4                                                                      *)
(***************************************************************************)
\* C4: after a merge, every record of primary whose normalized title is
\* also the normalized title of an incoming record is still stored under
\* its key, unchanged.
C4_LeftBiased ==
    [][MergeCall =>
         \A n \in 1..Len(Primary) :
             (/\ Has(Primary[n][2], "title")
              /\ normalize(Primary[n][2].title) \in Fingerprints(Incoming))
             => Kept(Primary[n][1])]_vars

(***************************************************************************)
(* C10                                                                     *)
(***************************************************************************)
\* C10: a merge of a collection with itself adds nothing: it does not
\* return "Done" and the target holds the same keys and records as before.
C10_MergeWithItselfAddsNothing ==
    [][(MergeCall /\ Primary = Incoming) =>
         (ret' # "Done" /\ yaml_file' = yaml_file)]_vars

\* a collection of two records, one of them without a title, or both with
\* one normalized title, has been merged with itself by a call that got as
\* far as comparing the two title indexes
C10_Witness ==
    /\ pc = "done"
    /\ ret = "all elements already exists"
    /\ Primary = Incoming
    /\ Len(Primary) = 2
    /\ \/ ~Has(Primary[1][2], "title")
       \/ /\ Has(Primary[1][2], "title") /\ Has(Primary[2][2], "title")
          /\ Primary[1][2] # Primary[2][2]
          /\ normalize(Primary[1][2].title) = normalize(Primary[2][2].title)

(***************************************************************************)
(* C11                                                                     *)
(***************************************************************************)
\* a merge call that got past the checks of its arguments
MergeRun == MergeCall /\ ret' # "None"

\* the fingerprints to add: those indexed for incoming and not for primary
ToAdd == Fingerprints(Incoming) \ Fingerprints(Primary)

\* the key the title index of d holds for the normalized title t: the key
\* of the last record of d with that normalized title
IndexedKey(d, t) ==
    LET with == {n \in 1..Len(d) : Has(d[n][2], "title") /\ normalize(d[n][2].title) = t}
    IN  d[CHOOSE n \in with : \A m \in with : m <= n][1]

\* the target holds, under key k, the record incoming has under k
HoldsIncoming(k) ==
    /\ k \in DictKeys(yaml_file'.entries)
    /\ DictGet(yaml_file'.entries, k) = DictGet(Incoming, k)

\* C11: in a merge, for every fingerprint indexed for incoming and not for
\* primary, the incoming record indexed under it is in the result under its
\* incoming key with its incoming contents; every key of the result that is
\* new or holds another record than before is the key of such a record;
\* and the merge returns "Done" iff there is such a fingerprint.
C11_AddsExactlyToAdd ==
    [][MergeRun =>
         /\ \A t \in ToAdd : HoldsIncoming(IndexedKey(Incoming, t))
         /\ \A k \in DictKeys(yaml_file'.entries) :
               (k \notin DictKeys(Primary) \/ ~Kept(k)) =>
                   \E t \in ToAdd : k = IndexedKey(Incoming, t)
         /\ ret' = "Done" <=> ToAdd # {}]_vars

\* a merge has added an incoming record and has left out another one, whose
\* fingerprint primary has
C11_Witness ==
    /\ pc = "done" /\ ret = "Done"
    /\ Len(Incoming) = 2
    /\ \E k \in DictKeys(Incoming) : k \notin DictKeys(Primary)
    /\ \E n \in 1..Len(Incoming) :
          /\ Has(Incoming[n][2], "title")
          /\ normalize(Incoming[n][2].title) \in Fingerprints(Primary)

(***************************************************************************)
(* C12                                                                     *)
(***************************************************************************)
TitleLess(d) == {n \in 1..Len(d) : ~Has(d[n][2], "title")}

\* C12: after a merge every record of primary without a title and every
\* record of incoming without a title is in the collection merged into.
C12_TitleLessNeverDropped ==
    [][MergeRun =>
         /\ \A n \in TitleLess(Primary) : Kept(Primary[n][1])
         /\ \A n \in TitleLess(Incoming) : HoldsIncoming(Incoming[n][1])]_vars

(***************************************************************************)
(* C13                                                                     *)
(***************************************************************************)
\* C13: no merge call changes the incoming collection, whether it adds
\* records, adds nothing or bails out; and when the incoming document is
\* the one the target holds, so that both may be one file, the target is
\* not rewritten.
C13_IncomingNotMutated ==
    [][MergeCall =>
         /\ entry_data_A' = entry_data_A
         /\ (entry_data_A = yaml_file) => (yaml_file' = yaml_file)]_vars

\* a merge has added records of a dict of two entries
C13_Witness ==
    /\ pc = "done" /\ ret = "Done"
    /\ ~entry_data_A.wrapped
    /\ Len(Incoming) = 2
    /\ Len(yaml_file.entries) >= 2

(***************************************************************************)
(* C14                                                                     *)
(***************************************************************************)
\* a call of the named matcher has returned
Returned(fn) == pc = "returned" /\ fn_in.fn = fn

\* the two entries of the call agree on the field of the call: equal
\* normalized titles, equal author fingerprints
ValuesAgree ==
    IF fn_in.field = "author"
    THEN author_name_equivalence(fn_in.entry1) = author_name_equivalence(fn_in.entry2)
    ELSE normalize(fn_in.entry1.title) = normalize(fn_in.entry2.title)

InBoth == Has(fn_in.entry1, fn_in.field) /\ Has(fn_in.entry2, fn_in.field)
InNeither == ~Has(fn_in.entry1, fn_in.field) /\ ~Has(fn_in.entry2, fn_in.field)

\* C14 as stated: do_they_have returns 0, 1 or 3; 3 iff the field is in both
\* records and the values agree, 1 iff it is in both and they disagree, and
\* 0 iff the field is absent from both records.
C14_ZeroIffAbsentFromBoth ==
    Returned("do_they_have") =>
        /\ fn_out[1] \in {0, 1, 3}
        /\ fn_out[1] = 3 <=> (InBoth /\ ValuesAgree)
        /\ fn_out[1] = 1 <=> (InBoth /\ ~ValuesAgree)
        /\ fn_out[1] = 0 <=> InNeither

\* C14 amended: do_they_have returns 0, 1 or 3; 3 iff the field is in both
\* records and the values agree, 1 iff it is in both and they disagree, and
\* 0 iff the field is absent from at least one of the two records.
C14_ZeroIffAbsentFromOne ==
    Returned("do_they_have") =>
        /\ fn_out[1] \in {0, 1, 3}
        /\ fn_out[1] = 3 <=> (InBoth /\ ValuesAgree)
        /\ fn_out[1] = 1 <=> (InBoth /\ ~ValuesAgree)
        /\ fn_out[1] = 0 <=> ~InBoth

\* do_they_have has returned 0 for an author field that one record has and
\* the other has not
C14_Witness ==
    /\ Returned("do_they_have")
    /\ fn_in.field = "author"
    /\ Has(fn_in.entry1, "author") /\ ~Has(fn_in.entry2, "author")
    /\ fn_out[1] = 0

(***************************************************************************)
(* C15                                                                     *)
(***************************************************************************)
\* the mark of the report for the way field f stands in the two entries of
\* the call
MarkFor(f) ==
    LET in1 == Has(fn_in.entry1, f)
        in2 == Has(fn_in.entry2, f)
    IN  CASE ~in1 /\ ~in2 -> "M-Both"
          [] ~in1 /\ in2 -> "M-1"
          [] in1 /\ ~in2 -> "M-2"
          [] in1 /\ in2 -> IF fn_in.entry1[f] = fn_in.entry2[f] THEN "Yes" ELSE "No"

\* C15: field_values_match_multiple returns one of 0..4 for each of type,
\* journal, volume, number, pages and year: 0 iff the field is in neither
\* record, 1 iff only the first lacks it, 2 iff only the second lacks it,
\* 3 iff both have it with equal raw values, 4 iff both have it with
\* different raw values; and each field column of a row built for a pair
\* shows this verdict for the pair.
C15_FiveFieldVerdicts ==
    /\ Returned("field_values_match_multiple") =>
          LET f == fn_in.field
              in1 == Has(fn_in.entry1, f)
              in2 == Has(fn_in.entry2, f)
          IN  /\ fn_out[1] \in 0..4
              /\ fn_out[1] = 0 <=> (~in1 /\ ~in2)
              /\ fn_out[1] = 1 <=> (~in1 /\ in2)
              /\ fn_out[1] = 2 <=> (in1 /\ ~in2)
              /\ fn_out[1] = 3 <=> (in1 /\ in2 /\ fn_in.entry1[f] = fn_in.entry2[f])
              /\ fn_out[1] = 4 <=> (in1 /\ in2 /\ fn_in.entry1[f] # fn_in.entry2[f])
    /\ Returned("row") =>
          /\ Len(fn_out) = 4 + Len(ReportFields)
          /\ \A n \in 1..Len(ReportFields) : fn_out[4 + n] = MarkFor(ReportFields[n])

\* a row has been built for a pair with a field missing on the left only,
\* one missing on the right only and one missing on both sides
C15_Witness ==
    /\ Returned("row")
    /\ \A m \in {"M-Both", "M-1", "M-2"} :
          \E n \in 1..Len(ReportFields) : fn_out[4 + n] = m

(***************************************************************************)
(* C16                                                                     *)
(***************************************************************************)
\* the person has a first or a middle name
Named(person) == Has(person, "first") \/ Has(person, "middle")

\* what one person registers: the initial of the middle name if there is a
\* middle name, the initial of the first name otherwise, each followed by
\* the same initial with a dot
Registration(person) ==
    LET name == IF Has(person, "middle") THEN person.middle ELSE person.first
    IN  << <<name[1]>>, <<name[1], ".">> >>

\* the place in the list of the last named person with the last name
LastNamed(authors, last) ==
    LET with == {n \in 1..Len(authors) : authors[n].last = last /\ Named(authors[n])}
    IN  CHOOSE n \in with : \A m \in with : m <= n

\* the mapping is the one C16 describes for the author list
IsFingerprintOf(fp, authors) ==
    /\ DOMAIN fp = {authors[n].last : n \in {m \in 1..Len(authors) : Named(authors[m])}}
    /\ \A last \in DOMAIN fp :
          fp[last] = Registration(authors[LastNamed(authors, last)])

\* C16: the mapping author_name_equivalence returns has an entry for a last
\* name iff a person of the list with that last name has a first or a
\* middle name, and the entry is the registration of the last such person:
\* the initials of the middle name if the person has one (the middle name
\* overwrites the first), of the first name otherwise; a person with
\* neither contributes nothing.
C16_LastNamedPersonRegisters ==
    Returned("author_name_equivalence") =>
        /\ IsFingerprintOf(fn_out[1], fn_in.entry1.author)
        /\ IsFingerprintOf(fn_out[2], fn_in.entry2.author)

\* the mapping has been returned for a list of a person with a first name
\* followed by a person of the same last name with a first and a middle
\* name, and holds the initials of the middle name; and for a list of a
\* person with a first name followed by a person of the same last name
\* with neither, and holds the initials of the first name
C16_Witness ==
    /\ Returned("author_name_equivalence")
    /\ LET authors == fn_in.entry1.author
       IN  /\ Len(authors) = 2
           /\ Has(authors[1], "first") /\ ~Has(authors[1], "middle")
           /\ Has(authors[2], "first") /\ Has(authors[2], "middle")
           /\ authors[2].last = authors[1].last
           /\ fn_out[1][authors[1].last] = << <<"B">>, <<"B", ".">> >>
    /\ LET authors == fn_in.entry2.author
       IN  /\ Len(authors) = 2
           /\ Has(authors[1], "first") /\ ~Has(authors[1], "middle")
           /\ ~Named(authors[2])
           /\ authors[2].last = authors[1].last
           /\ fn_out[2][authors[1].last] = << <<"A">>, <<"A", ".">> >>

(***************************************************************************)
(* C17                                                                     *)
(***************************************************************************)
Fingerprint1 == author_name_equivalence(fn_in.entry1)
Fingerprint2 == author_name_equivalence(fn_in.entry2)

EqualAsMappings(fp1, fp2) ==
    /\ DOMAIN fp1 = DOMAIN fp2
    /\ \A last \in DOMAIN fp1 : fp1[last] = fp2[last]

StrictSubset(S, T) == S \subseteq T /\ S # T

\* the last names of the persons of an author list
LastNames(authors) == {authors[n].last : n \in 1..Len(authors)}

\* the authors of two entries agree iff the two mappings are equal; an
\* entry agrees with itself; the answer is the same both ways round
AgreementIsEquality ==
    /\ fn_out[1] <=> EqualAsMappings(Fingerprint1, Fingerprint2)
    /\ fn_out[3]
    /\ fn_out[1] <=> fn_out[2]

\* C17 as stated: the authors of two records with an author field agree iff
\* their fingerprints are equal as mappings, the relation is reflexive and
\* symmetric, and when the last names of one record are a strict subset of
\* the last names of the other the authors do not agree.
C17_SubsetOfRecordLastNamesDisagrees ==
    Returned("entries_match") =>
        /\ AgreementIsEquality
        /\ \/ StrictSubset(LastNames(fn_in.entry1.author), LastNames(fn_in.entry2.author))
           \/ StrictSubset(LastNames(fn_in.entry2.author), LastNames(fn_in.entry1.author))
           => ~fn_out[1]

\* C17 amended: the authors of two records with an author field agree iff
\* their fingerprints are equal as mappings, the relation is reflexive and
\* symmetric, and when the last names registered in one fingerprint are a
\* strict subset of the last names registered in the other the authors do
\* not agree.
C17_SubsetOfRegisteredLastNamesDisagrees ==
    Returned("entries_match") =>
        /\ AgreementIsEquality
        /\ \/ StrictSubset(DOMAIN Fingerprint1, DOMAIN Fingerprint2)
           \/ StrictSubset(DOMAIN Fingerprint2, DOMAIN Fingerprint1)
           => ~fn_out[1]

\* entries_match has answered no for two author lists of which the second
\* registers every last name the first registers, with the same initials,
\* and one more
C17_Witness ==
    /\ Returned("entries_match")
    /\ StrictSubset(DOMAIN Fingerprint1, DOMAIN Fingerprint2)
    /\ DOMAIN Fingerprint1 # {}
    /\ \A last \in DOMAIN Fingerprint1 : Fingerprint1[last] = Fingerprint2[last]
    /\ ~fn_out[1]

(***************************************************************************)
(* C18                                                                     *)
(***************************************************************************)
\* every person of the list has a first name and no middle name
FirstNamesOnly(authors) ==
    \A n \in 1..Len(authors) : Has(authors[n], "first") /\ ~Has(authors[n], "middle")

\* under each last name all first names of the two lists start with the
\* same character
SameFirstCharacters(authors1, authors2) ==
    LET both == authors1 \o authors2
    IN  \A n, m \in 1..Len(both) :
            both[n].last = both[m].last => both[n].first[1] = both[m].first[1]

\* C18: two records whose author lists have the same last names, first
\* names and no middle names, the first names under each last name
\* starting with the same character, have equal fingerprints and their
\* authors agree, whatever the other characters of the first names are.
C18_InitialMatchesFullFirstName ==
    LET authors1 == fn_in.entry1.author
        authors2 == fn_in.entry2.author
    IN  (/\ Returned("entries_match")
         /\ FirstNamesOnly(authors1) /\ FirstNamesOnly(authors2)
         /\ LastNames(authors1) = LastNames(authors2)
         /\ SameFirstCharacters(authors1, authors2))
        => (fn_out[1] /\ Fingerprint1 = Fingerprint2)

\* entries_match has answered yes for J. Smith and John Smith, each with a
\* second author
C18_Witness ==
    LET authors1 == fn_in.entry1.author
        authors2 == fn_in.entry2.author
    IN  /\ Returned("entries_match")
        /\ Len(authors1) = 2 /\ Len(authors2) = 2
        /\ FirstNamesOnly(authors1) /\ FirstNamesOnly(authors2)
        /\ LastNames(authors1) = LastNames(authors2)
        /\ SameFirstCharacters(authors1, authors2)
        /\ \E n, m \in 1..2 :
              /\ authors1[n].last = authors2[m].last
              /\ authors1[n].first = JDot /\ authors2[m].first = John
        /\ fn_out[1]

(***************************************************************************)
(* C19                                                                     *)
(***************************************************************************)
LowercaseLetters == {"a", "b", "c", "i"}

IsLetterOrDigit(c) == c \in Letters \cup Digits

\* C19: the string normalize returns holds lowercase letters and digits
\* only, and it is the string given with every character that is neither a
\* letter nor a digit deleted and the letters put in lower case.
C19_OnlyLowercaseLettersAndDigits ==
    pc = "normalized" =>
        /\ \A n \in 1..Len(fn_out) : fn_out[n] \in LowercaseLetters \cup Digits
        /\ fn_out = LowerAll(SelectSeq(fn_in, IsLetterOrDigit))

(***************************************************************************)
(* C20                                                                     *)
(***************************************************************************)
\* C20: normalize called on a string it has returned returns that string.
C20_NormalizeIdempotent ==
    pc = "normalized twice" => fn_out = fn_in

(***************************************************************************)
(* C21                                                                     *)
(***************************************************************************)
\* the person has a last name, and no name that is an empty string
HasNameShape(person) ==
    /\ Has(person, "last")
    /\ Has(person, "first") => person.first # << >>
    /\ Has(person, "middle") => person.middle # << >>

\* the records of the collection are mappings whose authors, if any, are
\* persons with a last name; a title, a first name, a middle name may be
\* missing
RecordsInShape(d) ==
    \A n \in 1..Len(d) :
        Has(d[n][2], "author") =>
            \A m \in 1..Len(d[n][2].author) : HasNameShape(d[n][2].author[m])

\* the files of the call are collections of such records
InputsInShape ==
    /\ RecordsInShape(bib_data1)
    /\ RecordsInShape(bib_data2)
    /\ IsMapping(entry_data_A)
    /\ RecordsInShape(yaml_file.entries)
    /\ RecordsInShape(entry_data_A.entries)

\* the call has returned: compare_files with its report written, a merge
\* function with its answer
RunCompleted ==
    /\ pc = "done"
    /\ output_file.written \/ ret # NotReturned

\* what the call has done so far: the pairs scanned and the left keys
\* closed, one more when it has ended
Steps ==
    idx1 * (Len(bib_data2) + 2) + idx2
        + (IF pc \in {"compare", "merge"} THEN 0 ELSE 1)

MostSteps == (Len(bib_data1) + 2) * (Len(bib_data2) + 2)

\* C21: a call of compare_files or of a merge function on collections whose
\* records lack a title, whose authors lack a first or a middle name or
\* both, or in which a record has several strong matches, is never in an
\* error state; every step of it brings it nearer to its end, of which it
\* is never further than a number of steps fixed by the sizes of the
\* files; and when it has ended the report is written or the answer of the
\* merge is returned.
C21_DataQualityNeverAborts ==
    /\ [](InputsInShape => pc # "error")
    /\ [](InputsInShape /\ pc \notin {"compare", "merge"} => RunCompleted)
    /\ [](Steps <= MostSteps)
    /\ [][Steps' > Steps]_vars

\* compare_files has written its report for a left file with a record
\* without title and first name and a record that has two strong matches,
\* one of them with an author without first and middle name
C21_Witness ==
    /\ pc = "done" /\ output_file.written
    /\ InputsInShape
    /\ \E n \in 1..Len(bib_data1) :
          /\ ~Has(bib_data1[n][2], "title")
          /\ \E m \in 1..Len(bib_data1[n][2].author) :
                ~Has(bib_data1[n][2].author[m], "first")
    /\ \E n \in 1..Len(bib_data2) :
          /\ Has(bib_data2[n][2], "author")
          /\ \E m \in 1..Len(bib_data2[n][2].author) : ~Named(bib_data2[n][2].author[m])
    /\ output_file.multi # EmptyDict

(***************************************************************************)
(* C22                                                                     *)
(***************************************************************************)
\* what the checks of the merge functions turn down: a primary without
\* 'entries', an incoming document that is empty or is not a mapping
TurnedDown ==
    \/ ~yaml_file.wrapped
    \/ ~IsMapping(entry_data_A)
    \/ IsFalsy(entry_data_A)

\* C22: a merge call whose primary is not wrapped in 'entries' or whose
\* incoming document is empty or is not a mapping ends without writing the
\* target file; a compare_files call that has failed in the scan has
\* opened no report; and the report is written only when the whole scan is
\* over, the target file only when the checks have passed.
C22_NoPartialOutput ==
    /\ [][(pc = "merge" /\ pc' # "merge" /\ TurnedDown) =>
             (yaml_file' = yaml_file /\ ret' # "Done")]_vars
    /\ [][pc' = "error" => (yaml_file' = yaml_file /\ ~output_file'.written)]_vars
    /\ [](output_file.written => (pc = "done" /\ idx1 > Len(bib_data1)))

\* compare_files has failed in the scan after it had found a candidate
\* pair, and there is no report
C22_Witness ==
    /\ pc = "error"
    /\ matches # << >>
    /\ ~output_file.written

(***************************************************************************)
(* C23                                                                     *)
(***************************************************************************)
\* an entry header without key, @type{, of one of the types the function
\* is told to look for, however the type is written
KeylessHeader(line) ==
    /\ line.kind = "header"
    /\ line.key = << >>
    /\ line.type \in {"article", "book", "Book"}

\* C23: when preprocess_bibtex_without_key_id has returned, the output has
\* as many lines as the input; a line of the input that is not a header
\* without key is at its place in the output, unchanged; and at the place
\* of a header without key the output has a header of the same type with a
\* key.
C23_LinesKeptHeadersKeyed ==
    pc = "done" =>
        /\ Len(fn_out) = Len(fn_in)
        /\ \A n \in 1..Len(fn_in) :
              IF KeylessHeader(fn_in[n])
              THEN /\ fn_out[n].kind = "header"
                   /\ fn_out[n].type = fn_in[n].type
                   /\ fn_out[n].key # << >>
              ELSE fn_out[n] = fn_in[n]

(***************************************************************************)
(* C24                                                                     *)
(***************************************************************************)
\* C24: when add_entry_dic_to_yaml returns "Done", every key of the
\* dictionary that the data of the file did not have is in the data
\* written, with the value of the dictionary, and every key the data had
\* has the value it had.
C24_EveryAbsentKeyAdded ==
    [][(pc = "add" /\ ret' = "Done") =>
         /\ \A k \in DictKeys(entry_data_A.entries) \ DictKeys(yaml_file.entries) :
               /\ k \in DictKeys(yaml_file'.entries)
               /\ DictGet(yaml_file'.entries, k) = DictGet(entry_data_A.entries, k)
         /\ \A k \in DictKeys(yaml_file.entries) :
               /\ k \in DictKeys(yaml_file'.entries)
               /\ DictGet(yaml_file'.entries, k) = DictGet(yaml_file.entries, k)]_vars

(***************************************************************************)
(* C25                                                                     *)
(***************************************************************************)
\* the left key is the left key of a row
HasRowOf(k1) == \E n \in 1..Len(matches) : matches[n][1] = k1

\* C25: when compare_files has ended, every left key is either in the
\* unmatched set or the left key of a row, and not both; every key of the
\* multi-match map is the left key of a row, and its count is at least 2
\* and at most the number of right records.
C25_UnmatchedOrInARow ==
    Compared =>
        /\ \A i \in LeftIdx :
              (LeftKey(i) \in DictKeys(no_matches)) <=> ~HasRowOf(LeftKey(i))
        /\ \A k \in DictKeys(match_counter) :
              /\ HasRowOf(k)
              /\ k \notin DictKeys(no_matches)
              /\ DictGet(match_counter, k) >= 2
              /\ DictGet(match_counter, k) <= Len(bib_data2)

\* compare_files has ended with a left key that has two strong matches and
\* a left key that has no candidate
C25_Witness ==
    /\ Compared
    /\ \E k \in DictKeys(match_counter) : DictGet(match_counter, k) = 2
    /\ \E i \in LeftIdx :
          /\ LeftKey(i) \in DictKeys(no_matches)
          /\ ~HasRowOf(LeftKey(i))
    /\ Len(bib_data2) = 2

(***************************************************************************)
(* C26                                                                     *)
(***************************************************************************)
\* C26: after a merge, every record of incoming that has a title whose
\* normalized form is the normalized title of no record of primary is in
\* the collection merged into, under its key and with its contents, also
\* when other records of incoming have the same normalized title.
C26_EveryNewTitledRecordAdded ==
    [][MergeRun =>
         \A n \in 1..Len(Incoming) :
             (/\ Has(Incoming[n][2], "title")
              /\ normalize(Incoming[n][2].title) \notin Fingerprints(Primary))
             => HoldsIncoming(Incoming[n][1])]_vars

====
